---- MODULE Spec2Model ----
(***************************************************************************)
(* The IRQ bypass manager (virt/lib/irqbypass.c): a registry that pairs    *)
(* interrupt producers and consumers by token and drives the connect and   *)
(* disconnect callback protocol under one global mutex, while pinning the  *)
(* module with a reference count.                                          *)
(***************************************************************************)
EXTENDS Integers, Sequences, FiniteSets, TLC

(* ------------------------------------------------------------------ *)
(* Bounds of the model                                                 *)
(* ------------------------------------------------------------------ *)

\* Non-null tokens are 1..NumTokens; 0 is the NULL token.
NumTokens == 2
\* A failing callback returns one of -1 .. -NumErrs.
NumErrs == 2
\* The model stops issuing calls once the reference count fell this far
\* below zero (only an unbalanced module_put can take it there).
MaxDeficit == 0

(* ------------------------------------------------------------------ *)
(* Program constants                                                   *)
(* ------------------------------------------------------------------ *)

EINVAL == 22
ENODEV == 19
EBUSY == 16

Producers == {"p1", "p2"}
Consumers == {"c1", "c2"}
Entries == Producers \cup Consumers
Threads == {"t1", "t2"}
NoThread == "none"
NoEntry == "none"
NullToken == 0
Tokens == 1..NumTokens
CbRets == (0 - NumErrs)..0

\* struct irq_bypass_producer: the optional callbacks.
ProducerCaps == {"stop", "start", "add_consumer", "del_consumer"}
\* struct irq_bypass_consumer: add_producer and del_producer are mandatory.
ConsumerCaps == {"stop", "start", "add_producer", "del_producer"}

Ops == {"register_producer", "unregister_producer",
        "register_consumer", "unregister_consumer"}

VARIABLES
    token,      \* token[e]: the token field of each descriptor
    caps,       \* caps[e]: the callbacks the descriptor supplies (non-NULL)
    producers,  \* static LIST_HEAD(producers), head first
    consumers,  \* static LIST_HEAD(consumers), head first
    lock,       \* static DEFINE_MUTEX(lock): its owner, or NoThread
    refcnt,     \* references held on THIS_MODULE
    going,      \* the module is being unloaded: try_module_get fails
    running,    \* running[e]: collaborator state, FALSE between stop and start
    pside,      \* <<p, c>>: p.add_consumer(c) succeeded, no p.del_consumer(c) since
    cside,      \* <<p, c>>: c.add_producer(p) succeeded, no c.del_producer(p) since
    connected,  \* <<p, c>>: __connect(p, c) returned 0, no __disconnect(p, c) since
    retokened,  \* entries whose token was changed while they were registered
    pc,         \* pc[t]: the position of thread t in its API call
    op,         \* op[t]: the API operation thread t is running
    arg,        \* arg[t]: the descriptor passed to it
    peer,       \* peer[t]: the matched entry of the opposite list
    ret,        \* ret[t]: the local ret, and the value returned
    log,        \* log[t]: the callbacks the call has invoked, in order
    pre         \* pre[t]: the registry when the call started (history)

vars == <<token, caps, producers, consumers, lock, refcnt, going, running,
          pside, cside, connected, retokened, pc, op, arg, peer, ret, log, pre>>

registry == <<producers, consumers, lock, refcnt, going>>
collab == <<running, pside, cside, connected>>
descr == <<token, caps, retokened>>

(* ------------------------------------------------------------------ *)
(* Helpers                                                             *)
(* ------------------------------------------------------------------ *)

Range(s) == {s[i] : i \in 1..Len(s)}

\* A faulty Without: the entry stays on the list.
WithoutKept(s, e) == s

\* list_del(): the list without the entry.
RECURSIVE Without(_, _)
Without(s, e) ==
    IF s = <<>> THEN <<>>
    ELSE IF Head(s) = e THEN Without(Tail(s), e)
    ELSE <<Head(s)>> \o Without(Tail(s), e)

\* A faulty ListAdd: the new entry replaces the list.
ListAddAlone(e, s) == <<e>>

\* list_add(): insertion at the head of the list.
ListAdd(e, s) == <<e>> \o s

\* list_for_each_entry ... if (x->token == tok) ... break: the first entry
\* of the list carrying the token, or NoEntry.
FirstWithToken(s, tok) ==
    IF \E i \in 1..Len(s) : token[s[i]] = tok
    THEN s[CHOOSE i \in 1..Len(s) :
               /\ token[s[i]] = tok
               /\ \A j \in 1..(i - 1) : token[s[j]] # tok]
    ELSE NoEntry

NoSnap == [taken |-> FALSE]
Snap == [taken |-> TRUE, producers |-> producers, consumers |-> consumers,
         refcnt |-> refcnt, connected |-> connected, pside |-> pside,
         cside |-> cside, running |-> running]

\* One callback invocation: the callback, the descriptor it belongs to, the
\* descriptor passed to it (NoEntry for stop and start) and what it returned
\* (0 for the callbacks that return nothing).
Ev(cb, self, other, r) == <<cb, self, other, r>>

\* The producer and the consumer of the __connect/__disconnect thread t runs.
Prod(t) == IF op[t] \in {"register_producer", "unregister_producer"}
           THEN arg[t] ELSE peer[t]
Cons(t) == IF op[t] \in {"register_producer", "unregister_producer"}
           THEN peer[t] ELSE arg[t]

IsRegister(o) == o \in {"register_producer", "register_consumer"}

(* ------------------------------------------------------------------ *)
(* Initial state                                                       *)
(* ------------------------------------------------------------------ *)

TypeOK ==
    /\ token \in [Entries -> {NullToken} \cup Tokens]
    /\ \A p \in Producers : caps[p] \subseteq ProducerCaps
    /\ \A c \in Consumers : caps[c] \subseteq ConsumerCaps
    /\ Range(producers) \subseteq Producers
    /\ Range(consumers) \subseteq Consumers
    /\ lock \in Threads \cup {NoThread}
    /\ refcnt \in Int
    /\ going \in BOOLEAN
    /\ running \in [Entries -> BOOLEAN]
    /\ pside \subseteq Producers \X Consumers
    /\ cside \subseteq Producers \X Consumers
    /\ connected \subseteq Producers \X Consumers
    /\ op \in [Threads -> Ops \cup {"none"}]
    /\ arg \in [Threads -> Entries \cup {NoEntry}]
    /\ peer \in [Threads -> Entries \cup {NoEntry}]
    /\ ret \in [Threads -> Int]

InitRegistry ==
    /\ producers = <<>>
    /\ consumers = <<>>
    /\ lock = NoThread
    /\ refcnt = 0
    /\ going = FALSE
    /\ running = [e \in Entries |-> TRUE]
    /\ pside = {}
    /\ cside = {}
    /\ connected = {}
    /\ retokened = {}
    /\ pc = [t \in Threads |-> "idle"]
    /\ op = [t \in Threads |-> "none"]
    /\ arg = [t \in Threads |-> NoEntry]
    /\ peer = [t \in Threads |-> NoEntry]
    /\ ret = [t \in Threads |-> 0]
    /\ log = [t \in Threads |-> <<>>]
    /\ pre = [t \in Threads |-> NoSnap]

\* The descriptors the callers construct: p1 and c1 share token 1, the
\* second producer and consumer carry any token, NULL included.
InitTokens ==
    \E tp \in {NullToken} \cup Tokens, tc \in {NullToken} \cup Tokens :
        token = [e \in Entries |->
                    IF e = "p2" THEN tp ELSE IF e = "c2" THEN tc ELSE 1]

\* The callbacks a consumer descriptor may supply: any of the optional
\* ones, with both mandatory ones or with one of them missing.
ConsumerCapSets ==
    {{"add_producer", "del_producer"} \cup s : s \in SUBSET {"stop", "start"}}
        \cup {ConsumerCaps \ {"add_producer"}, ConsumerCaps \ {"del_producer"}}

\* Every producer descriptor supplies the same callbacks, any subset of the
\* optional ones, and so does every consumer descriptor.
InitCaps ==
    \E ps \in SUBSET ProducerCaps, cs \in ConsumerCapSets :
        caps = [e \in Entries |-> IF e \in Producers THEN ps ELSE cs]

Init ==
    /\ InitRegistry
    /\ InitTokens
    /\ InitCaps

\* The descriptors of the concurrent runs: every callback supplied, no
\* NULL token; the second producer carries any token.
InitConc ==
    /\ InitRegistry
    /\ \E tp \in Tokens :
        token = [e \in Entries |-> IF e = "p2" THEN tp ELSE 1]
    /\ caps = [e \in Entries |-> IF e \in Producers THEN ProducerCaps
                                                     ELSE ConsumerCaps]

(* ------------------------------------------------------------------ *)
(* The module reference (try_module_get / module_put on THIS_MODULE)   *)
(* ------------------------------------------------------------------ *)

\* try_module_get(THIS_MODULE) succeeds unless the module is going away.
TryModuleGetOk == ~going
\* module_put(THIS_MODULE) drops one reference.
ModulePut(n) == n - 1

(* ------------------------------------------------------------------ *)
(* Entry of the four API operations                                    *)
(* ------------------------------------------------------------------ *)

\* A faulty ValidArgs: only the token is looked at.
ValidArgsTokenOnly(o, e) == token[e] # NullToken

\* The argument checks made before anything else.
ValidArgs(o, e) ==
    IF o = "register_consumer"
    THEN /\ token[e] # NullToken
         /\ "add_producer" \in caps[e]
         /\ "del_producer" \in caps[e]
    ELSE token[e] # NullToken

\* A faulty Fail: the errno is lost and the call reports success.
FailSilently(o, e) == 0

\* The value a call returns when it gives up with errno e: the register
\* operations return -e, the unregister operations return nothing (0 here).
Fail(o, e) == IF IsRegister(o) THEN 0 - e ELSE 0

\* A caller thread enters one of the four operations with descriptor e.
Call(t, o, e, snap) ==
    /\ pc[t] = "idle"
    /\ refcnt >= 0 - MaxDeficit
    /\ e \in (IF o \in {"register_producer", "unregister_producer"}
              THEN Producers ELSE Consumers)
    /\ op' = [op EXCEPT ![t] = o]
    /\ arg' = [arg EXCEPT ![t] = e]
    /\ peer' = [peer EXCEPT ![t] = NoEntry]
    /\ log' = [log EXCEPT ![t] = <<>>]
    /\ pre' = [pre EXCEPT ![t] = snap]
    /\ IF ValidArgs(o, e)
       THEN /\ pc' = [pc EXCEPT ![t] = "get"]
            /\ ret' = [ret EXCEPT ![t] = 0]
       ELSE /\ pc' = [pc EXCEPT ![t] = "done"]
            /\ ret' = [ret EXCEPT ![t] = Fail(o, EINVAL)]
    /\ UNCHANGED <<registry, collab, descr>>

\* if (!try_module_get(THIS_MODULE)) return ...;
TryGet(t) ==
    /\ pc[t] = "get"
    /\ IF TryModuleGetOk
       THEN /\ refcnt' = refcnt + 1
            /\ pc' = [pc EXCEPT ![t] = "lock"]
            /\ UNCHANGED ret
       ELSE /\ pc' = [pc EXCEPT ![t] = "done"]
            /\ ret' = [ret EXCEPT ![t] = Fail(op[t], ENODEV)]
            /\ UNCHANGED refcnt
    /\ UNCHANGED <<producers, consumers, lock, going, collab, descr,
                   op, arg, peer, log, pre>>

(* ------------------------------------------------------------------ *)
(* mutex_lock and the list scans made under it                         *)
(* ------------------------------------------------------------------ *)

\* A faulty ProducerDup: only the same descriptor counts as a duplicate.
ProducerDupByAddress(p) ==
    \E i \in 1..Len(producers) : producers[i] = p

\* register_producer: a producer with the same token is already listed.
ProducerDup(p) ==
    \E i \in 1..Len(producers) : token[producers[i]] = token[p]

\* A faulty ConsumerDup: only the same descriptor counts as a duplicate.
ConsumerDupByAddress(c) ==
    \E i \in 1..Len(consumers) : consumers[i] = c

\* register_consumer: a consumer with the same token, or the same
\* descriptor, is already listed.
ConsumerDup(c) ==
    \E i \in 1..Len(consumers) :
        token[consumers[i]] = token[c] \/ consumers[i] = c

\* unregister_producer looks its argument up by token.
ProducerFound(p) ==
    \E i \in 1..Len(producers) : token[producers[i]] = token[p]

\* unregister_consumer looks its argument up by address.
ConsumerFound(c) ==
    \E i \in 1..Len(consumers) : consumers[i] = c

\* A faulty MatchOf: the head of the opposite list is taken as the match,
\* whatever its token.
MatchOfHead(o, e) ==
    LET opp == IF o \in {"register_producer", "unregister_producer"}
               THEN consumers ELSE producers
    IN IF opp = <<>> THEN NoEntry ELSE Head(opp)

\* The entry of the opposite list the argument is matched with.
MatchOf(o, e) ==
    IF o \in {"register_producer", "unregister_producer"}
    THEN FirstWithToken(consumers, token[e])
    ELSE FirstWithToken(producers, token[e])

\* A faulty RegisterScan: the opposite list is not searched for a match.
RegisterScanNoConnect(o, e) ==
    IF (IF o = "register_producer" THEN ProducerDup(e) ELSE ConsumerDup(e))
    THEN <<"unlock", NoEntry, 0 - EBUSY>>
    ELSE <<"add", NoEntry, 0>>

\* A faulty RegisterScan: only register_producer searches the opposite
\* list for a match.
RegisterScanProducerOnly(o, e) ==
    IF (IF o = "register_producer" THEN ProducerDup(e) ELSE ConsumerDup(e))
    THEN <<"unlock", NoEntry, 0 - EBUSY>>
    ELSE IF o = "register_producer" /\ MatchOf(o, e) # NoEntry
         THEN <<"c_stop_p", MatchOf(o, e), 0>>
         ELSE <<"add", NoEntry, 0>>

\* What the scans of register_* decide: <<next pc, peer, ret>>.
RegisterScan(o, e) ==
    IF (IF o = "register_producer" THEN ProducerDup(e) ELSE ConsumerDup(e))
    THEN <<"unlock", NoEntry, 0 - EBUSY>>
    ELSE IF MatchOf(o, e) # NoEntry
         THEN <<"c_stop_p", MatchOf(o, e), 0>>
         ELSE <<"add", NoEntry, 0>>

\* A faulty UnregisterScan: the entry is deleted without a look at the
\* opposite list.
UnregisterScanNoMatch(o, e) ==
    IF (IF o = "unregister_producer" THEN ProducerFound(e)
                                     ELSE ConsumerFound(e))
    THEN <<"del", NoEntry, 0>>
    ELSE <<"unlock", NoEntry, 0>>

\* What the scans of unregister_* decide: <<next pc, peer, ret>>.
UnregisterScan(o, e) ==
    IF (IF o = "unregister_producer" THEN ProducerFound(e)
                                     ELSE ConsumerFound(e))
    THEN IF MatchOf(o, e) # NoEntry
         THEN <<"d_stop_p", MatchOf(o, e), 0>>
         ELSE <<"del", NoEntry, 0>>
    ELSE <<"unlock", NoEntry, 0>>

\* A faulty Lock: the mutex is taken whoever holds it.
LockBarging(t) ==
    /\ pc[t] = "lock"
    /\ lock' = t
    /\ LET r == IF IsRegister(op[t]) THEN RegisterScan(op[t], arg[t])
                                     ELSE UnregisterScan(op[t], arg[t])
       IN /\ pc' = [pc EXCEPT ![t] = r[1]]
          /\ peer' = [peer EXCEPT ![t] = r[2]]
          /\ ret' = [ret EXCEPT ![t] = r[3]]
    /\ UNCHANGED <<producers, consumers, refcnt, going, collab, descr,
                   op, arg, log, pre>>

\* mutex_lock(&lock) followed by the loops over the two lists.
Lock(t) ==
    /\ pc[t] = "lock"
    /\ lock = NoThread
    /\ lock' = t
    /\ LET r == IF IsRegister(op[t]) THEN RegisterScan(op[t], arg[t])
                                     ELSE UnregisterScan(op[t], arg[t])
       IN /\ pc' = [pc EXCEPT ![t] = r[1]]
          /\ peer' = [peer EXCEPT ![t] = r[2]]
          /\ ret' = [ret EXCEPT ![t] = r[3]]
    /\ UNCHANGED <<producers, consumers, refcnt, going, collab, descr,
                   op, arg, log, pre>>

(* ------------------------------------------------------------------ *)
(* Callback invocations                                                *)
(* ------------------------------------------------------------------ *)

\* A faulty StopStep: the stop callback is never invoked.
StopStepSkipped(t, e, next) ==
    /\ UNCHANGED <<running, log>>
    /\ pc' = [pc EXCEPT ![t] = next]

\* if (e->stop) e->stop(e);
StopStep(t, e, next) ==
    /\ IF "stop" \in caps[e]
       THEN /\ running' = [running EXCEPT ![e] = FALSE]
            /\ log' = [log EXCEPT ![t] = Append(@, Ev("stop", e, NoEntry, 0))]
       ELSE UNCHANGED <<running, log>>
    /\ pc' = [pc EXCEPT ![t] = next]

\* A faulty StartStep: the start callback is never invoked.
StartStepSkipped(t, e, next) ==
    /\ UNCHANGED <<running, log>>
    /\ pc' = [pc EXCEPT ![t] = next]

\* if (e->start) e->start(e);
StartStep(t, e, next) ==
    /\ IF "start" \in caps[e]
       THEN /\ running' = [running EXCEPT ![e] = TRUE]
            /\ log' = [log EXCEPT ![t] = Append(@, Ev("start", e, NoEntry, 0))]
       ELSE UNCHANGED <<running, log>>
    /\ pc' = [pc EXCEPT ![t] = next]

(* ------------------------------------------------------------------ *)
(* __connect                                                           *)
(* ------------------------------------------------------------------ *)

ConnStopProd(t) ==
    /\ pc[t] = "c_stop_p"
    /\ StopStep(t, Prod(t), "c_stop_c")
    /\ UNCHANGED <<registry, pside, cside, connected, descr,
                   op, arg, peer, ret, pre>>

ConnStopCons(t) ==
    /\ pc[t] = "c_stop_c"
    /\ StopStep(t, Cons(t), "c_add_c")
    /\ UNCHANGED <<registry, pside, cside, connected, descr,
                   op, arg, peer, ret, pre>>

\* A faulty AfterAddConsumer: __connect goes on to add_producer whatever
\* add_consumer returned.
AfterAddConsumerGoesOn(r) == "c_add_p"

\* Where __connect goes after prod->add_consumer returned r: a failure
\* returns at once, and the register operation then leaves by out_err.
AfterAddConsumer(r) == IF r # 0 THEN "unlock" ELSE "c_add_p"

\* if (prod->add_consumer) { ret = prod->add_consumer(prod, cons); ... }
ConnAddConsumer(t) ==
    /\ pc[t] = "c_add_c"
    /\ IF "add_consumer" \in caps[Prod(t)]
       THEN \E r \in CbRets :
              /\ log' = [log EXCEPT ![t] =
                           Append(@, Ev("add_consumer", Prod(t), Cons(t), r))]
              /\ ret' = [ret EXCEPT ![t] = r]
              /\ pside' = IF r = 0 THEN pside \cup {<<Prod(t), Cons(t)>>}
                                   ELSE pside
              /\ pc' = [pc EXCEPT ![t] = AfterAddConsumer(r)]
       ELSE /\ pc' = [pc EXCEPT ![t] = "c_add_p"]
            /\ UNCHANGED <<log, ret, pside>>
    /\ UNCHANGED <<registry, running, cside, connected, descr,
                   op, arg, peer, pre>>

\* A faulty AfterAddProducer: a failed add_producer is not rolled back.
AfterAddProducerNoRollback(r, p) == "c_start_c"

\* Where __connect goes after cons->add_producer returned r.
AfterAddProducer(r, p) ==
    IF r # 0 /\ "del_consumer" \in caps[p] THEN "c_del_c" ELSE "c_start_c"

\* ret = cons->add_producer(cons, prod);
ConnAddProducer(t) ==
    /\ pc[t] = "c_add_p"
    /\ \E r \in CbRets :
         /\ log' = [log EXCEPT ![t] =
                      Append(@, Ev("add_producer", Cons(t), Prod(t), r))]
         /\ ret' = [ret EXCEPT ![t] = r]
         /\ cside' = IF r = 0 THEN cside \cup {<<Prod(t), Cons(t)>>}
                              ELSE cside
         /\ pc' = [pc EXCEPT ![t] = AfterAddProducer(r, Prod(t))]
    /\ UNCHANGED <<registry, running, pside, connected, descr,
                   op, arg, peer, pre>>

\* if (ret && prod->del_consumer) prod->del_consumer(prod, cons);
ConnDelConsumer(t) ==
    /\ pc[t] = "c_del_c"
    /\ log' = [log EXCEPT ![t] =
                 Append(@, Ev("del_consumer", Prod(t), Cons(t), 0))]
    /\ pside' = pside \ {<<Prod(t), Cons(t)>>}
    /\ pc' = [pc EXCEPT ![t] = "c_start_c"]
    /\ UNCHANGED <<registry, running, cside, connected, descr,
                   op, arg, peer, ret, pre>>

ConnStartCons(t) ==
    /\ pc[t] = "c_start_c"
    /\ StartStep(t, Cons(t), "c_start_p")
    /\ UNCHANGED <<registry, pside, cside, connected, descr,
                   op, arg, peer, ret, pre>>

\* A faulty AfterConnect: the result of __connect is ignored.
AfterConnectIgnored(r) == "add"

\* Where the register operation goes with what __connect returned.
AfterConnect(r) == IF r # 0 THEN "unlock" ELSE "add"

\* if (prod->start) prod->start(prod); return ret;
ConnStartProd(t) ==
    /\ pc[t] = "c_start_p"
    /\ StartStep(t, Prod(t), AfterConnect(ret[t]))
    /\ connected' = IF ret[t] = 0 THEN connected \cup {<<Prod(t), Cons(t)>>}
                                  ELSE connected
    /\ UNCHANGED <<registry, pside, cside, descr, op, arg, peer, ret, pre>>

(* ------------------------------------------------------------------ *)
(* __disconnect                                                        *)
(* ------------------------------------------------------------------ *)

DiscStopProd(t) ==
    /\ pc[t] = "d_stop_p"
    /\ StopStep(t, Prod(t), "d_stop_c")
    /\ UNCHANGED <<registry, pside, cside, connected, descr,
                   op, arg, peer, ret, pre>>

DiscStopCons(t) ==
    /\ pc[t] = "d_stop_c"
    /\ StopStep(t, Cons(t), "d_del_p")
    /\ UNCHANGED <<registry, pside, cside, connected, descr,
                   op, arg, peer, ret, pre>>

\* A faulty DiscDelProducer: del_producer is not invoked.
DiscDelProducerSkipped(t) ==
    /\ pc[t] = "d_del_p"
    /\ pc' = [pc EXCEPT ![t] = "d_del_c"]
    /\ UNCHANGED <<registry, running, pside, cside, connected, descr,
                   op, arg, peer, ret, log, pre>>

\* cons->del_producer(cons, prod);
DiscDelProducer(t) ==
    /\ pc[t] = "d_del_p"
    /\ log' = [log EXCEPT ![t] =
                 Append(@, Ev("del_producer", Cons(t), Prod(t), 0))]
    /\ cside' = cside \ {<<Prod(t), Cons(t)>>}
    /\ pc' = [pc EXCEPT ![t] = "d_del_c"]
    /\ UNCHANGED <<registry, running, pside, connected, descr,
                   op, arg, peer, ret, pre>>

\* if (prod->del_consumer) prod->del_consumer(prod, cons);
DiscDelConsumer(t) ==
    /\ pc[t] = "d_del_c"
    /\ IF "del_consumer" \in caps[Prod(t)]
       THEN /\ log' = [log EXCEPT ![t] =
                         Append(@, Ev("del_consumer", Prod(t), Cons(t), 0))]
            /\ pside' = pside \ {<<Prod(t), Cons(t)>>}
       ELSE UNCHANGED <<log, pside>>
    /\ pc' = [pc EXCEPT ![t] = "d_start_c"]
    /\ UNCHANGED <<registry, running, cside, connected, descr,
                   op, arg, peer, ret, pre>>

DiscStartCons(t) ==
    /\ pc[t] = "d_start_c"
    /\ StartStep(t, Cons(t), "d_start_p")
    /\ UNCHANGED <<registry, pside, cside, connected, descr,
                   op, arg, peer, ret, pre>>

DiscStartProd(t) ==
    /\ pc[t] = "d_start_p"
    /\ StartStep(t, Prod(t), "del")
    /\ connected' = connected \ {<<Prod(t), Cons(t)>>}
    /\ UNCHANGED <<registry, pside, cside, descr, op, arg, peer, ret, pre>>

(* ------------------------------------------------------------------ *)
(* The ends of the four operations                                     *)
(* ------------------------------------------------------------------ *)

\* list_add(&e->node, &list); mutex_unlock(&lock); return 0;
Add(t) ==
    /\ pc[t] = "add"
    /\ IF op[t] = "register_producer"
       THEN /\ producers' = ListAdd(arg[t], producers)
            /\ UNCHANGED consumers
       ELSE /\ consumers' = ListAdd(arg[t], consumers)
            /\ UNCHANGED producers
    /\ lock' = NoThread
    /\ ret' = [ret EXCEPT ![t] = 0]
    /\ pc' = [pc EXCEPT ![t] = "done"]
    /\ retokened' = retokened \ {arg[t]}
    /\ UNCHANGED <<refcnt, going, collab, token, caps, op, arg, peer, log, pre>>

\* list_del(&e->node); module_put(THIS_MODULE); break;
\* list_del() of a node that is on no list is undefined: a build that
\* checks its lists leaves the list alone and goes on, any other faults in
\* list_del(), and the thread dies holding the mutex.
Del(t) ==
    /\ pc[t] = "del"
    /\ LET mine == IF op[t] = "unregister_producer" THEN producers
                                                    ELSE consumers
       IN IF arg[t] \in Range(mine)
          THEN /\ IF op[t] = "unregister_producer"
                  THEN /\ producers' = Without(producers, arg[t])
                       /\ UNCHANGED consumers
                  ELSE /\ consumers' = Without(consumers, arg[t])
                       /\ UNCHANGED producers
               /\ refcnt' = ModulePut(refcnt)
               /\ pc' = [pc EXCEPT ![t] = "unlock"]
          ELSE \/ /\ refcnt' = ModulePut(refcnt)
                  /\ pc' = [pc EXCEPT ![t] = "unlock"]
                  /\ UNCHANGED <<producers, consumers>>
               \/ /\ pc' = [pc EXCEPT ![t] = "oops"]
                  /\ UNCHANGED <<producers, consumers, refcnt>>
    /\ retokened' = retokened \ {arg[t]}
    /\ UNCHANGED <<lock, going, collab, token, caps, op, arg, peer, ret,
                   log, pre>>

\* A faulty Unlock: the call returns without its last module_put.
UnlockWithoutPut(t) ==
    /\ pc[t] = "unlock"
    /\ lock' = NoThread
    /\ pc' = [pc EXCEPT ![t] = "done"]
    /\ UNCHANGED <<producers, consumers, refcnt, going, collab, descr,
                   op, arg, peer, ret, log, pre>>

\* mutex_unlock(&lock); on the way to the last module_put.
Unlock(t) ==
    /\ pc[t] = "unlock"
    /\ lock' = NoThread
    /\ pc' = [pc EXCEPT ![t] = "put"]
    /\ UNCHANGED <<producers, consumers, refcnt, going, collab, descr,
                   op, arg, peer, ret, log, pre>>

\* A faulty Put: two references are dropped at the end of the call.
PutTwice(t) ==
    /\ pc[t] = "put"
    /\ refcnt' = ModulePut(ModulePut(refcnt))
    /\ pc' = [pc EXCEPT ![t] = "done"]
    /\ UNCHANGED <<producers, consumers, lock, going, collab, descr,
                   op, arg, peer, ret, log, pre>>

\* module_put(THIS_MODULE); return ret;
Put(t) ==
    /\ pc[t] = "put"
    /\ refcnt' = ModulePut(refcnt)
    /\ pc' = [pc EXCEPT ![t] = "done"]
    /\ UNCHANGED <<producers, consumers, lock, going, collab, descr,
                   op, arg, peer, ret, log, pre>>

\* The caller has the result and goes on.
Return(t) ==
    /\ pc[t] = "done"
    /\ pc' = [pc EXCEPT ![t] = "idle"]
    /\ op' = [op EXCEPT ![t] = "none"]
    /\ arg' = [arg EXCEPT ![t] = NoEntry]
    /\ peer' = [peer EXCEPT ![t] = NoEntry]
    /\ ret' = [ret EXCEPT ![t] = 0]
    /\ log' = [log EXCEPT ![t] = <<>>]
    /\ pre' = [pre EXCEPT ![t] = NoSnap]
    /\ UNCHANGED <<registry, collab, descr>>

(* ------------------------------------------------------------------ *)
(* Specifications                                                      *)
(* ------------------------------------------------------------------ *)

\* One step of thread t inside a call.
Step(t) ==
    \/ TryGet(t)
    \/ Lock(t)
    \/ ConnStopProd(t)
    \/ ConnStopCons(t)
    \/ ConnAddConsumer(t)
    \/ ConnAddProducer(t)
    \/ ConnDelConsumer(t)
    \/ ConnStartCons(t)
    \/ ConnStartProd(t)
    \/ DiscStopProd(t)
    \/ DiscStopCons(t)
    \/ DiscDelProducer(t)
    \/ DiscDelConsumer(t)
    \/ DiscStartCons(t)
    \/ DiscStartProd(t)
    \/ Add(t)
    \/ Del(t)
    \/ Unlock(t)
    \/ Put(t)
    \/ Return(t)

\* One caller thread: every call runs from its entry to its return before
\* the next one starts.
Next ==
    \/ \E o \in Ops, e \in Entries : Call("t1", o, e, Snap)
    \/ Step("t1")

Spec == Init /\ [][Next]_vars

\* The owner of consumer c writes a new token into c->token between two
\* calls, whether c is registered or not.
SetConsumerToken(c, tok) ==
    /\ \A t \in Threads : pc[t] = "idle"
    /\ tok # token[c]
    /\ token' = [token EXCEPT ![c] = tok]
    /\ retokened' = IF c \in Range(consumers) THEN retokened \cup {c}
                                               ELSE retokened
    /\ UNCHANGED <<registry, collab, caps, pc, op, arg, peer, ret, log, pre>>

\* The descriptors these callers pass.
RetokenEntries == {"p1", "c1", "c2"}

\* One caller thread whose consumers may come back with another token.
NextRetoken ==
    \/ \E o \in Ops, e \in RetokenEntries : Call("t1", o, e, Snap)
    \/ Step("t1")
    \/ \E c \in Consumers, tok \in Tokens : SetConsumerToken(c, tok)

\* The descriptors of these runs: every callback supplied, one producer
\* and one consumer per token to begin with.
InitRetoken ==
    /\ InitRegistry
    /\ token = [e \in Entries |-> IF e \in {"p1", "c1"} THEN 1 ELSE NumTokens]
    /\ caps = [e \in Entries |-> IF e \in Producers THEN ProducerCaps
                                                     ELSE ConsumerCaps]

SpecRetoken == InitRetoken /\ [][NextRetoken]_vars

\* The descriptors the concurrent callers pass.
ConcEntries == {"p1", "p2", "c1"}

\* Two caller threads, each inside at most one call. Callers are
\* interchangeable, so a call that starts while no other is in flight
\* runs on t1.
NextConc ==
    \E t \in Threads :
        \/ /\ t = "t2" => pc["t1"] \notin {"idle", "done"}
           /\ \E o \in Ops, e \in ConcEntries : Call(t, o, e, NoSnap)
        \/ Step(t)

SpecConc == InitConc /\ [][NextConc]_vars

\* The manager module starts to unload, which it may once nothing holds a
\* reference on it; from then on try_module_get fails.
ModuleUnload ==
    /\ ~going
    /\ refcnt = 0
    /\ going' = TRUE
    /\ UNCHANGED <<producers, consumers, lock, refcnt, collab, descr,
                   pc, op, arg, peer, ret, log, pre>>

\* One caller thread and the unloading of the module, which may come
\* between any two steps of a call.
NextShutdown ==
    \/ \E o \in Ops, e \in Entries : Call("t1", o, e, Snap)
    \/ Step("t1")
    \/ ModuleUnload

SpecShutdown == InitConc /\ [][NextShutdown]_vars

\* The descriptors of two callers that deal with one producer and one
\* consumer of the same token.
RaceEntries == {"p1", "c1"}

\* Two calls at a time on that pair, and no third beside them: a call of
\* t1 starts while t2 is idle, a call of t2 starts while one of t1 is in
\* progress, and the caller on t2 goes on once the call of t1 is over.
NextRace ==
    \/ /\ pc["t2"] = "idle"
       /\ \E o \in Ops, e \in RaceEntries : Call("t1", o, e, Snap)
    \/ /\ pc["t1"] \notin {"idle", "done"}
       /\ \E o \in Ops, e \in RaceEntries : Call("t2", o, e, Snap)
    \/ Step("t1")
    \/ /\ pc["t2"] = "done" => pc["t1"] \in {"idle", "done"}
       /\ Step("t2")

SpecRace == InitRetoken /\ [][NextRace]_vars

\* A thread inside a call keeps running, and a thread that waits for the
\* mutex gets it if it is free again and again.
Fairness ==
    \A t \in Threads : WF_vars(Step(t)) /\ SF_vars(Lock(t))

\* The two concurrent callers under that scheduling.
SpecFair == InitConc /\ [][NextConc]_vars /\ Fairness

\* The call of thread t is at the invocation of a callback that its
\* producer or consumer supplies.
InCallback(t) ==
    /\ peer[t] # NoEntry
    /\ \/ pc[t] \in {"c_stop_p", "d_stop_p"} /\ "stop" \in caps[Prod(t)]
       \/ pc[t] \in {"c_stop_c", "d_stop_c"} /\ "stop" \in caps[Cons(t)]
       \/ pc[t] = "c_add_c" /\ "add_consumer" \in caps[Prod(t)]
       \/ pc[t] \in {"c_add_p", "c_del_c", "d_del_p"}
       \/ pc[t] = "d_del_c" /\ "del_consumer" \in caps[Prod(t)]
       \/ pc[t] \in {"c_start_c", "d_start_c"} /\ "start" \in caps[Cons(t)]
       \/ pc[t] \in {"c_start_p", "d_start_p"} /\ "start" \in caps[Prod(t)]

\* One caller thread whose callbacks may call back into the registry.
\* The call made from inside a callback is the frame t2 of the same
\* thread: it starts at a callback of the outer call t1, and the outer
\* call goes on only once it has returned. The mutex is held by t1 then.
NextReenter ==
    \/ /\ InCallback("t1")
       /\ \E o \in Ops, e \in ConcEntries : Call("t2", o, e, NoSnap)
    \/ /\ pc["t2"] # "idle"
       /\ Step("t2")
    \/ /\ pc["t2"] = "idle"
       /\ \E o \in Ops, e \in ConcEntries : Call("t1", o, e, NoSnap)
    \/ /\ pc["t2"] = "idle"
       /\ Step("t1")

SpecReenter == Init /\ [][NextReenter]_vars

\* The snapshot s, kept for the second call of a pair of calls.
PairSnap(s) ==
    [taken |-> TRUE, pair |-> TRUE, producers |-> s.producers,
     consumers |-> s.consumers, refcnt |-> s.refcnt,
     connected |-> s.connected, pside |-> s.pside, cside |-> s.cside,
     running |-> s.running]

\* The caller of a register call that returned 0 calls the matching
\* unregister operation with the same descriptor right away.
UnregisterAfterRegister(t) ==
    /\ pc[t] = "done"
    /\ IsRegister(op[t])
    /\ ret[t] = 0
    /\ pre[t].taken
    /\ refcnt >= 0 - MaxDeficit
    /\ op' = [op EXCEPT ![t] = IF op[t] = "register_producer"
                                THEN "unregister_producer"
                                ELSE "unregister_consumer"]
    /\ peer' = [peer EXCEPT ![t] = NoEntry]
    /\ log' = [log EXCEPT ![t] = <<>>]
    /\ pre' = [pre EXCEPT ![t] = PairSnap(pre[t])]
    /\ pc' = [pc EXCEPT ![t] = "get"]
    /\ UNCHANGED <<registry, collab, descr, arg, ret>>

\* One caller thread that may follow a registration by its
\* unregistration at once.
NextPairs ==
    \/ \E o \in Ops, e \in Entries : Call("t1", o, e, Snap)
    \/ Step("t1")
    \/ UnregisterAfterRegister("t1")

SpecPairs == Init /\ [][NextPairs]_vars

\* The registry at the start of the first of two registrations, and the
\* descriptor the first one registered.
OrderSnap(s, e) ==
    [taken |-> TRUE, first |-> e, producers |-> s.producers,
     consumers |-> s.consumers, refcnt |-> s.refcnt,
     connected |-> s.connected, pside |-> s.pside, cside |-> s.cside,
     running |-> s.running]

\* The caller of a register call that returned 0 registers a descriptor
\* of the other kind that carries the same token right away.
RegisterPartner(t) ==
    /\ pc[t] = "done"
    /\ IsRegister(op[t])
    /\ ret[t] = 0
    /\ pre[t].taken
    /\ "first" \notin DOMAIN pre[t]
    /\ refcnt >= 0 - MaxDeficit
    /\ \E e \in Entries :
        LET o == IF op[t] = "register_producer" THEN "register_consumer"
                                                ELSE "register_producer"
        IN /\ e \in (IF o = "register_producer" THEN Producers
                                                 ELSE Consumers)
           /\ token[e] = token[arg[t]]
           /\ op' = [op EXCEPT ![t] = o]
           /\ arg' = [arg EXCEPT ![t] = e]
           /\ pre' = [pre EXCEPT ![t] = OrderSnap(pre[t], arg[t])]
           /\ IF ValidArgs(o, e)
              THEN /\ pc' = [pc EXCEPT ![t] = "get"]
                   /\ ret' = [ret EXCEPT ![t] = 0]
              ELSE /\ pc' = [pc EXCEPT ![t] = "done"]
                   /\ ret' = [ret EXCEPT ![t] = Fail(o, EINVAL)]
    /\ peer' = [peer EXCEPT ![t] = NoEntry]
    /\ log' = [log EXCEPT ![t] = <<>>]
    /\ UNCHANGED <<registry, collab, descr>>

\* One caller thread that may follow a registration by the registration
\* of a partner at once.
NextOrder ==
    \/ \E o \in Ops, e \in Entries : Call("t1", o, e, Snap)
    \/ Step("t1")
    \/ RegisterPartner("t1")

SpecOrder == Init /\ [][NextOrder]_vars

(* ------------------------------------------------------------------ *)
(* Vocabulary of the properties                                        *)
(* ------------------------------------------------------------------ *)

\* No API call is in progress.
Quiescent == \A t \in Threads : pc[t] \in {"idle", "done"}

\* Thread t has returned from a register call that ran __connect.
ReturnedFromConnect(t) ==
    /\ pc[t] = "done"
    /\ IsRegister(op[t])
    /\ peer[t] # NoEntry

WiringCallbacks ==
    {"add_consumer", "del_consumer", "add_producer", "del_producer"}

\* The producer and the consumer a wiring callback invocation is about.
EvProd(ev) == IF ev[1] \in {"add_consumer", "del_consumer"} THEN ev[2] ELSE ev[3]
EvCons(ev) == IF ev[1] \in {"add_consumer", "del_consumer"} THEN ev[3] ELSE ev[2]

\* The start invocations of the call of thread t, in order.
StartsOf(t) == SelectSeq(log[t], LAMBDA ev : ev[1] = "start")

\* cons->start then prod->start, each if supplied.
RestartOf(p, c) ==
    (IF "start" \in caps[c] THEN <<Ev("start", c, NoEntry, 0)>> ELSE <<>>)
        \o (IF "start" \in caps[p] THEN <<Ev("start", p, NoEntry, 0)>> ELSE <<>>)

(* ------------------------------------------------------------------ *)
(* C1                                                                  *)
(* ------------------------------------------------------------------ *)

\* C1: whatever the outcome of a __connect run inside a register call, by
\* the time the call returns cons->start (if supplied) and then prod->start
\* (if supplied) have been invoked, after every stop, and no side that
\* supplies both stop and start is left stopped.
C1_ConnectAlwaysRestarts ==
    \A t \in Threads :
        ReturnedFromConnect(t) =>
            /\ StartsOf(t) = RestartOf(Prod(t), Cons(t))
            /\ \A i, j \in 1..Len(log[t]) :
                   (log[t][i][1] = "stop" /\ log[t][j][1] = "start") => i < j
            /\ \A e \in {Prod(t), Cons(t)} :
                   {"stop", "start"} \subseteq caps[e] => running[e]

(* ------------------------------------------------------------------ *)
(* C2                                                                  *)
(* ------------------------------------------------------------------ *)

\* C2: in every connect and disconnect sequence each wiring callback on a
\* pair is invoked after stop was invoked on every side of the pair that
\* supplies stop and before any start of the sequence, and a side that
\* supplies stop is not running when the wiring of its pair is about to
\* change.
C2_WiringOnlyWhileStopped ==
    \A t \in Threads :
        /\ \A i \in 1..Len(log[t]) :
               log[t][i][1] \in WiringCallbacks =>
                   /\ \A e \in {EvProd(log[t][i]), EvCons(log[t][i])} :
                          "stop" \in caps[e] =>
                              \E j \in 1..(i - 1) :
                                  log[t][j] = Ev("stop", e, NoEntry, 0)
                   /\ \A j \in 1..(i - 1) : log[t][j][1] # "start"
        /\ pc[t] \in {"c_add_c", "c_add_p", "c_del_c", "d_del_p", "d_del_c"} =>
               \A e \in {Prod(t), Cons(t)} :
                   "stop" \in caps[e] => ~running[e]

\* A disconnect of a pair whose two sides supply stop has unwired it.
C2_Witness ==
    \E t \in Threads :
        /\ pc[t] = "done"
        /\ peer[t] # NoEntry
        /\ "stop" \in caps[Prod(t)]
        /\ "stop" \in caps[Cons(t)]
        /\ \E i \in 1..Len(log[t]) : log[t][i][1] = "del_producer"

(* ------------------------------------------------------------------ *)
(* C3                                                                  *)
(* ------------------------------------------------------------------ *)

\* Thread t has returned from unregistering a descriptor that was not in
\* its list when the call started.
ReturnedFromUnregisterOfUnregistered(t) ==
    /\ pc[t] = "done"
    /\ pre[t].taken
    /\ \/ /\ op[t] = "unregister_producer"
          /\ arg[t] \notin Range(pre[t].producers)
       \/ /\ op[t] = "unregister_consumer"
          /\ arg[t] \notin Range(pre[t].consumers)

\* The registry, the wiring and the reference count are those of the
\* start of the call of thread t.
SameAsBefore(t) ==
    /\ producers = pre[t].producers
    /\ consumers = pre[t].consumers
    /\ connected = pre[t].connected
    /\ pside = pre[t].pside
    /\ cside = pre[t].cside
    /\ refcnt = pre[t].refcnt

\* C3: unregistering a descriptor that is not registered is a no-op: both
\* lists, the wiring and the reference count are as before the call and no
\* callback was invoked, whatever else is registered.
C3_UnregisterOfUnregisteredIsNoop ==
    \A t \in Threads :
        ReturnedFromUnregisterOfUnregistered(t) =>
            /\ SameAsBefore(t)
            /\ log[t] = <<>>

(* ------------------------------------------------------------------ *)
(* C4                                                                  *)
(* ------------------------------------------------------------------ *)

\* C4: whenever no API call is in progress, the references held on the
\* module are as many as the registered producers and consumers.
C4_GuardCountsRegistrations ==
    Quiescent => refcnt = Len(producers) + Len(consumers)

(* ------------------------------------------------------------------ *)
(* C5                                                                  *)
(* ------------------------------------------------------------------ *)

\* The add_consumer and add_producer invocations of the call of thread t.
AddsOf(t) ==
    SelectSeq(log[t], LAMBDA ev : ev[1] \in {"add_consumer", "add_producer"})

\* Thread t has returned from a register call whose __connect failed.
ReturnedFromFailedConnect(t) ==
    /\ ReturnedFromConnect(t)
    /\ pre[t].taken
    /\ \E i \in 1..Len(log[t]) :
           log[t][i][1] \in {"add_consumer", "add_producer"} /\ log[t][i][4] # 0

\* C5: a register call whose connect sequence fails returns exactly the
\* value the failing add_consumer/add_producer callback returned, leaves
\* the new entry out of its list, leaves the matched entry registered and
\* the pair not connected, and leaves the reference count as it found it.
C5_FailedConnectRollsBack ==
    \A t \in Threads :
        ReturnedFromFailedConnect(t) =>
            /\ ret[t] = AddsOf(t)[Len(AddsOf(t))][4]
            /\ ret[t] # 0
            /\ producers = pre[t].producers
            /\ consumers = pre[t].consumers
            /\ arg[t] \notin Range(producers) \cup Range(consumers)
            /\ peer[t] \in Range(producers) \cup Range(consumers)
            /\ <<Prod(t), Cons(t)>> \notin connected
            /\ <<Prod(t), Cons(t)>> \notin cside
            /\ refcnt = pre[t].refcnt

\* A registerConsumer whose add_producer failed after add_consumer
\* succeeded has returned.
C5_Witness ==
    \E t \in Threads :
        /\ ReturnedFromFailedConnect(t)
        /\ op[t] = "register_consumer"
        /\ Len(AddsOf(t)) = 2
        /\ ret[t] = 0 - NumErrs

(* ------------------------------------------------------------------ *)
(* C6                                                                  *)
(* ------------------------------------------------------------------ *)

\* C6: whenever the mutex is free, a producer and a consumer are connected
\* (their __connect returned 0 and no __disconnect of them ran since)
\* exactly when both are registered and carry the same token, and no token
\* has more than one connected pair.
C6_ConnectedIffRegisteredMatch ==
    lock = NoThread =>
        /\ \A p \in Producers, c \in Consumers :
               <<p, c>> \in connected <=>
                   /\ p \in Range(producers)
                   /\ c \in Range(consumers)
                   /\ token[p] = token[c]
        /\ \A tok \in Tokens :
               Cardinality({pr \in connected : token[pr[1]] = tok
                                                  \/ token[pr[2]] = tok}) <= 1

\* Two pairs are connected, one per token.
C6_Witness ==
    /\ lock = NoThread
    /\ Cardinality(connected) = 2

(* ------------------------------------------------------------------ *)
(* C7                                                                  *)
(* ------------------------------------------------------------------ *)

\* C7: in every reachable state, under any interleaving of concurrent
\* calls, no two entries of the producer list carry the same token.
C7_ProducerTokensUnique ==
    \A i, j \in 1..Len(producers) :
        i # j => token[producers[i]] # token[producers[j]]

\* Two producers are registered and a registerProducer was refused as a
\* duplicate.
C7_Witness ==
    /\ Len(producers) = 2
    /\ \E t \in Threads :
           /\ pc[t] = "done"
           /\ op[t] = "register_producer"
           /\ ret[t] = 0 - EBUSY

(* ------------------------------------------------------------------ *)
(* C8                                                                  *)
(* ------------------------------------------------------------------ *)

\* Thread t has returned from registerProducer of a descriptor whose token
\* a registered producer carried when the call started.
ReturnedFromDuplicateProducer(t) ==
    /\ pc[t] = "done"
    /\ op[t] = "register_producer"
    /\ pre[t].taken
    /\ \E q \in Range(pre[t].producers) : token[q] = token[arg[t]]

\* C8: registerProducer of a descriptor whose token a registered producer
\* carries returns -EBUSY, leaves both lists and the wiring as they were,
\* invokes no callback and leaves the reference count as it found it.
C8_DuplicateProducerIsBusy ==
    \A t \in Threads :
        ReturnedFromDuplicateProducer(t) =>
            /\ ret[t] = 0 - EBUSY
            /\ SameAsBefore(t)
            /\ running = pre[t].running
            /\ log[t] = <<>>

\* A second producer with the token of a registered one was refused while
\* a consumer with that token was registered too.
C8_Witness ==
    \E t \in Threads :
        /\ ReturnedFromDuplicateProducer(t)
        /\ arg[t] \notin Range(producers)
        /\ \E c \in Range(consumers) : token[c] = token[arg[t]]

(* ------------------------------------------------------------------ *)
(* C9                                                                  *)
(* ------------------------------------------------------------------ *)

\* Thread t has returned from registerConsumer of a descriptor that was
\* registered, or whose token a registered consumer carried, when the call
\* started.
ReturnedFromDuplicateConsumer(t) ==
    /\ pc[t] = "done"
    /\ op[t] = "register_consumer"
    /\ pre[t].taken
    /\ \E q \in Range(pre[t].consumers) :
           token[q] = token[arg[t]] \/ q = arg[t]

\* registerConsumer of a duplicate returns -EBUSY, leaves the consumer
\* list alone and invokes no callback.
DuplicateConsumerIsBusy ==
    \A t \in Threads :
        ReturnedFromDuplicateConsumer(t) =>
            /\ ret[t] = 0 - EBUSY
            /\ consumers = pre[t].consumers
            /\ log[t] = <<>>

\* No descriptor is on the consumer list twice.
NoConsumerTwice ==
    \A i, j \in 1..Len(consumers) : i # j => consumers[i] # consumers[j]

\* C9 as stated: a duplicate registerConsumer is refused, and so no two
\* registered consumers share a token and none is listed twice.
C9_ConsumerTokensUnique ==
    /\ DuplicateConsumerIsBusy
    /\ NoConsumerTwice
    /\ \A i, j \in 1..Len(consumers) :
           i # j => token[consumers[i]] # token[consumers[j]]

\* C9 as amended: a duplicate registerConsumer is refused, so no consumer
\* is listed twice, and no two registered consumers whose tokens were not
\* changed since they were registered share a token.
C9_ConsumerTokensUniqueUnlessChanged ==
    /\ DuplicateConsumerIsBusy
    /\ NoConsumerTwice
    /\ \A i, j \in 1..Len(consumers) :
           (/\ i # j
            /\ consumers[i] \notin retokened
            /\ consumers[j] \notin retokened)
               => token[consumers[i]] # token[consumers[j]]

\* A registered consumer whose token was changed since was registered
\* again and refused, while another consumer is registered too.
C9_Witness ==
    \E t \in Threads :
        /\ ReturnedFromDuplicateConsumer(t)
        /\ arg[t] \in Range(consumers)
        /\ arg[t] \in retokened
        /\ Len(consumers) = 2

(* ------------------------------------------------------------------ *)
(* C10                                                                 *)
(* ------------------------------------------------------------------ *)

\* Thread t has returned from a register call for a well-formed
\* descriptor: one with a token and, for a consumer, both mandatory
\* callbacks.
ReturnedFromRegister(t) ==
    /\ pc[t] = "done"
    /\ IsRegister(op[t])
    /\ pre[t].taken
    /\ ValidArgs(op[t], arg[t])

OwnList(t) == IF op[t] = "register_producer" THEN producers ELSE consumers

\* The entries of the opposite list that carried the token of the argument
\* when the call started.
MatchedBefore(t) ==
    {q \in Range(IF op[t] = "register_producer" THEN pre[t].consumers
                                                ELSE pre[t].producers) :
        token[q] = token[arg[t]]}

CountOf(t, cb) == Len(SelectSeq(log[t], LAMBDA ev : ev[1] = cb))

\* The callbacks of the call are those of one __connect of the argument
\* and the matched entry, and if it returned 0 the argument is registered
\* and the pair connected.
OneConnectOfMatch(t) ==
    /\ peer[t] \in MatchedBefore(t)
    /\ \A i \in 1..Len(log[t]) :
           IF log[t][i][1] \in WiringCallbacks
           THEN EvProd(log[t][i]) = Prod(t) /\ EvCons(log[t][i]) = Cons(t)
           ELSE log[t][i][2] \in {Prod(t), Cons(t)}
    /\ \A cb \in {"add_consumer", "add_producer", "del_consumer"} :
           CountOf(t, cb) <= 1
    /\ \A e \in {Prod(t), Cons(t)} :
           Len(SelectSeq(log[t], LAMBDA ev : ev[1] = "stop" /\ ev[2] = e)) <= 1
    /\ CountOf(t, "add_consumer") + CountOf(t, "add_producer") >= 1
    /\ CountOf(t, "del_producer") = 0
    /\ ret[t] = 0 =>
           /\ arg[t] \in Range(OwnList(t))
           /\ <<Prod(t), Cons(t)>> \in connected

\* With a match one connect of that pair runs; without one no callback is
\* invoked and the argument is registered.
RegisterEffect(t) ==
    IF MatchedBefore(t) # {}
    THEN OneConnectOfMatch(t)
    ELSE log[t] = <<>> /\ arg[t] \in Range(OwnList(t))

\* The call of thread t found no duplicate of its argument.
Accepted(t) ==
    IF op[t] = "register_producer"
    THEN \A q \in Range(pre[t].producers) : token[q] # token[arg[t]]
    ELSE \A q \in Range(pre[t].consumers) :
             token[q] # token[arg[t]] /\ q # arg[t]

\* C10 as stated: every register call for a descriptor with a token T runs
\* exactly one connect, of the descriptor and the entry of the opposite
\* list carrying T, when there is one, and registers the descriptor when
\* that connect succeeds; when there is none it invokes no callback and
\* registers the descriptor.
C10_RegisterConnectsMatch ==
    \A t \in Threads : ReturnedFromRegister(t) => RegisterEffect(t)

\* C10 as amended: the same, for the register calls that are not refused
\* as duplicates.
C10_AcceptedRegisterConnectsMatch ==
    \A t \in Threads :
        (ReturnedFromRegister(t) /\ Accepted(t)) => RegisterEffect(t)

\* A producer was registered and connected to the one of two registered
\* consumers that carries its token.
C10_Witness ==
    \E t \in Threads :
        /\ ReturnedFromRegister(t)
        /\ Accepted(t)
        /\ op[t] = "register_producer"
        /\ ret[t] = 0
        /\ Len(consumers) = 2
        /\ peer[t] # NoEntry
        /\ peer[t] # Head(consumers)

(* ------------------------------------------------------------------ *)
(* C11                                                                 *)
(* ------------------------------------------------------------------ *)

IsUnregister(o) == o \in {"unregister_producer", "unregister_consumer"}

\* The callbacks of one __disconnect(p, c), in order.
DisconnectOf(p, c) ==
    (IF "stop" \in caps[p] THEN <<Ev("stop", p, NoEntry, 0)>> ELSE <<>>)
        \o (IF "stop" \in caps[c] THEN <<Ev("stop", c, NoEntry, 0)>> ELSE <<>>)
        \o <<Ev("del_producer", c, p, 0)>>
        \o (IF "del_consumer" \in caps[p]
            THEN <<Ev("del_consumer", p, c, 0)>> ELSE <<>>)
        \o RestartOf(p, c)

\* The call of thread t unregisters a descriptor that was on its list
\* when the call started.
UnregisterOfRegistered(t) ==
    /\ IsUnregister(op[t])
    /\ pre[t].taken
    /\ arg[t] \in Range(IF op[t] = "unregister_producer"
                         THEN pre[t].producers ELSE pre[t].consumers)

\* The registered entries the argument of the call of thread t was
\* connected to, with the same token, when the call started.
PartnersBefore(t) ==
    IF op[t] = "unregister_producer"
    THEN {c \in Range(pre[t].consumers) :
              /\ <<arg[t], c>> \in pre[t].connected
              /\ token[c] = token[arg[t]]}
    ELSE {p \in Range(pre[t].producers) :
              /\ <<p, arg[t]>> \in pre[t].connected
              /\ token[p] = token[arg[t]]}

\* The list the call of thread t deletes from, and the opposite one.
UnregList(t) == IF op[t] = "unregister_producer" THEN producers ELSE consumers
OppositeList(t) ==
    IF op[t] = "unregister_producer" THEN consumers ELSE producers

\* The pair of thread t is unwired: not connected, the consumer side
\* dropped, and the producer side dropped where the producer can drop it.
Unwired(t) ==
    /\ <<Prod(t), Cons(t)>> \notin connected
    /\ <<Prod(t), Cons(t)>> \notin cside
    /\ "del_consumer" \in caps[Prod(t)] => <<Prod(t), Cons(t)>> \notin pside

\* C11: unregistering a registered entry that is connected runs exactly
\* one __disconnect of the pair and removes the entry only after it: the
\* entry is on its list during the whole sequence, and at the return it is
\* off its list, the partner is still on the opposite list and the pair is
\* unwired. A registered entry with no token match on the opposite list is
\* removed with no callback invoked.
C11_UnregisterDisconnectsThenRemoves ==
    \A t \in Threads :
        UnregisterOfRegistered(t) =>
            /\ pc[t] \in {"lock", "d_stop_p", "d_stop_c", "d_del_p", "d_del_c",
                          "d_start_c", "d_start_p", "del"} =>
                   arg[t] \in Range(UnregList(t))
            /\ (pc[t] \in {"del", "done"} /\ PartnersBefore(t) # {}) =>
                   /\ peer[t] \in PartnersBefore(t)
                   /\ log[t] = DisconnectOf(Prod(t), Cons(t))
            /\ (pc[t] = "done" /\ PartnersBefore(t) # {}) =>
                   /\ arg[t] \notin Range(UnregList(t))
                   /\ peer[t] \in Range(OppositeList(t))
                   /\ Unwired(t)
            /\ (pc[t] = "done" /\ MatchOf(op[t], arg[t]) = NoEntry) =>
                   /\ log[t] = <<>>
                   /\ arg[t] \notin Range(UnregList(t))

\* A connected consumer whose producer supplies every callback was
\* unregistered.
C11_Witness ==
    \E t \in Threads :
        /\ pc[t] = "done"
        /\ UnregisterOfRegistered(t)
        /\ op[t] = "unregister_consumer"
        /\ PartnersBefore(t) # {}
        /\ Len(log[t]) = 6

(* ------------------------------------------------------------------ *)
(* C12                                                                 *)
(* ------------------------------------------------------------------ *)

\* Thread t is in a register call for a descriptor without a token or, for
\* a consumer, without add_producer or without del_producer.
InRegisterOfInvalid(t) ==
    /\ IsRegister(op[t])
    /\ \/ token[arg[t]] = NullToken
       \/ /\ op[t] = "register_consumer"
          /\ {"add_producer", "del_producer"} \ caps[arg[t]] # {}

\* C12: a register call for such a descriptor returns -EINVAL at once: it
\* never reaches try_module_get or mutex_lock, invokes no callback, and
\* leaves both lists, the wiring and the reference count as they were.
C12_InvalidRegisterIsRefused ==
    \A t \in Threads :
        InRegisterOfInvalid(t) =>
            /\ pc[t] = "done"
            /\ ret[t] = 0 - EINVAL
            /\ lock # t
            /\ log[t] = <<>>
            /\ pre[t].taken =>
                   /\ SameAsBefore(t)
                   /\ running = pre[t].running

\* A consumer with a token and without del_producer was refused while a
\* producer with its token is registered.
C12_Witness ==
    \E t \in Threads :
        /\ InRegisterOfInvalid(t)
        /\ pc[t] = "done"
        /\ pre[t].taken
        /\ op[t] = "register_consumer"
        /\ token[arg[t]] # NullToken
        /\ "del_producer" \notin caps[arg[t]]
        /\ \E p \in Range(producers) : token[p] = token[arg[t]]

(* ------------------------------------------------------------------ *)
(* C13                                                                 *)
(* ------------------------------------------------------------------ *)

\* Thread t is at try_module_get, with valid arguments, while the module
\* is going away.
GuardRefused(t) ==
    /\ pc[t] = "get"
    /\ going
    /\ ValidArgs(op[t], arg[t])

\* C13: when try_module_get fails, the call goes straight to its return:
\* a register call returns -ENODEV and an unregister call returns with
\* nothing done; the mutex is not taken, no callback is invoked, and the
\* lists, the wiring, the collaborators and the reference count stay as
\* they are.
C13_GuardRefusedIsNoop ==
    [][\A t \in Threads :
          (GuardRefused(t) /\ pc'[t] # pc[t]) =>
              /\ pc'[t] = "done"
              /\ ret'[t] = (IF IsRegister(op[t]) THEN 0 - ENODEV ELSE 0)
              /\ log[t] = <<>> /\ log'[t] = <<>>
              /\ lock # t /\ lock' = lock
              /\ UNCHANGED <<producers, consumers, refcnt, collab>>
              /\ pre[t].taken => SameAsBefore(t)']_vars

\* A registerConsumer has come back with -ENODEV from a module that is
\* going away.
C13_Witness ==
    \E t \in Threads :
        /\ pc[t] = "done"
        /\ going
        /\ op[t] = "register_consumer"
        /\ ret[t] = 0 - ENODEV
        /\ pre[t].taken
        /\ SameAsBefore(t)

(* ------------------------------------------------------------------ *)
(* C14                                                                 *)
(* ------------------------------------------------------------------ *)

\* The positions of a call between its mutex_lock and its mutex_unlock:
\* the list scans are done, and the callbacks, list_add and list_del are
\* made, from these.
LockedPositions ==
    {"c_stop_p", "c_stop_c", "c_add_c", "c_add_p", "c_del_c", "c_start_c",
     "c_start_p", "d_stop_p", "d_stop_c", "d_del_p", "d_del_c", "d_start_c",
     "d_start_p", "add", "del", "unlock", "oops"}

\* C14: with calls running concurrently, a thread that is inside a
\* connect or disconnect sequence, or about to change a list, holds the
\* mutex, so at most one thread is; and a call that has not taken the
\* mutex yet has invoked no callback.
C14_OneSequenceAtATime ==
    /\ \A t \in Threads : pc[t] \in LockedPositions <=> lock = t
    /\ \A t, u \in Threads :
           (pc[t] \in LockedPositions /\ pc[u] \in LockedPositions) => t = u
    /\ \A t \in Threads :
           (pc[t] \in {"get", "lock"} /\ lock # t) => log[t] = <<>>

\* One thread is in the middle of a connect sequence while the other
\* waits for the mutex.
C14_Witness ==
    \E t, u \in Threads :
        /\ pc[t] = "c_add_p"
        /\ log[t] # <<>>
        /\ pc[u] = "lock"

(* ------------------------------------------------------------------ *)
(* C15                                                                 *)
(* ------------------------------------------------------------------ *)

\* The callbacks of one __connect(p, c) in which every callback succeeds,
\* in order.
ConnectOf(p, c) ==
    (IF "stop" \in caps[p] THEN <<Ev("stop", p, NoEntry, 0)>> ELSE <<>>)
        \o (IF "stop" \in caps[c] THEN <<Ev("stop", c, NoEntry, 0)>> ELSE <<>>)
        \o (IF "add_consumer" \in caps[p]
            THEN <<Ev("add_consumer", p, c, 0)>> ELSE <<>>)
        \o <<Ev("add_producer", c, p, 0)>>
        \o RestartOf(p, c)

AllSucceeded(t) == \A i \in 1..Len(log[t]) : log[t][i][4] = 0

\* Thread t runs registerProducer(p) and thread u registerConsumer(c), p
\* and c carry the same token, and when either call started nothing with
\* that token was registered: the two calls overlap.
RacingRegisters(t, u) ==
    /\ op[t] = "register_producer"
    /\ op[u] = "register_consumer"
    /\ token[arg[t]] = token[arg[u]]
    /\ \A x \in {t, u} :
           /\ pre[x].taken
           /\ \A e \in Range(pre[x].producers) \cup Range(pre[x].consumers) :
                  token[e] # token[arg[t]]

\* C15: registerProducer(p) and registerConsumer(c) racing on one token,
\* every callback succeeding: the call that takes the mutex first invokes
\* no callback and the other one runs the one __connect(p, c); both
\* return 0 and p and c end registered, connected and wired.
C15_RacingRegistersConnectOnce ==
    \A t, u \in Threads :
        (RacingRegisters(t, u) /\ AllSucceeded(t) /\ AllSucceeded(u)) =>
            /\ \A x \in {t, u} : \A y \in {t, u} \ {x} :
                   /\ (pc[x] = "add" /\ peer[x] = NoEntry) =>
                          pc[y] \in {"get", "lock"}
                   /\ (pc[x] \in LockedPositions /\ peer[x] # NoEntry) =>
                          (pc[y] = "done" /\ log[y] = <<>>)
            /\ (pc[t] = "done" /\ pc[u] = "done") =>
                   /\ ret[t] = 0 /\ ret[u] = 0
                   /\ \/ log[t] = <<>> /\ log[u] = ConnectOf(arg[t], arg[u])
                      \/ log[u] = <<>> /\ log[t] = ConnectOf(arg[t], arg[u])
                   /\ arg[t] \in Range(producers)
                   /\ arg[u] \in Range(consumers)
                   /\ <<arg[t], arg[u]>> \in connected \cap pside \cap cside
                   /\ running[arg[t]] /\ running[arg[u]]

\* Both racing calls have returned, and the connect was run by
\* registerProducer.
C15_Witness ==
    \E t, u \in Threads :
        /\ RacingRegisters(t, u)
        /\ AllSucceeded(t) /\ AllSucceeded(u)
        /\ pc[t] = "done" /\ pc[u] = "done"
        /\ log[t] # <<>>

(* ------------------------------------------------------------------ *)
(* C16                                                                 *)
(* ------------------------------------------------------------------ *)

PastAddProducer(t) ==
    /\ IsRegister(op[t])
    /\ pc[t] \in {"c_start_c", "c_start_p", "add", "unlock", "put", "done"}
    /\ CountOf(t, "add_producer") = 1

\* C17: in the __connect of a register call, del_consumer is invoked only
\* after add_consumer was invoked and add_producer then failed, at most
\* once, and exactly once in that case when the producer supplies it; a
\* producer without add_consumer never has del_consumer invoked.
C17_RollbackOnlyAfterAddConsumer ==
    \A t \in Threads :
        IsRegister(op[t]) =>
            /\ \A i \in 1..Len(log[t]) :
                   log[t][i][1] = "del_consumer" =>
                       \E j, k \in 1..(i - 1) :
                           /\ j < k
                           /\ log[t][j][1] = "add_consumer"
                           /\ log[t][k][1] = "add_producer"
                           /\ log[t][k][4] # 0
            /\ CountOf(t, "del_consumer") <= 1
            /\ (/\ PastAddProducer(t)
                /\ ret[t] # 0
                /\ {"add_consumer", "del_consumer"} \subseteq caps[Prod(t)]) =>
                   CountOf(t, "del_consumer") = 1
            /\ (log[t] # <<>> /\ "add_consumer" \notin caps[Prod(t)]) =>
                   CountOf(t, "del_consumer") = 0

(* ------------------------------------------------------------------ *)
(* C18                                                                 *)
(* ------------------------------------------------------------------ *)

\* The add_consumer of the __connect of thread t has failed.
AddConsumerFailed(t) ==
    /\ IsRegister(op[t])
    /\ \E i \in 1..Len(log[t]) :
           log[t][i][1] = "add_consumer" /\ log[t][i][4] # 0

\* C18: when add_consumer fails in a __connect, add_producer and
\* del_consumer are not invoked in it, and what __connect returns, and the
\* register call with it, is what add_consumer returned.
C18_FailedAddConsumerAborts ==
    \A t \in Threads :
        AddConsumerFailed(t) =>
            /\ CountOf(t, "add_producer") = 0
            /\ CountOf(t, "del_consumer") = 0
            /\ CountOf(t, "add_consumer") = 1
            /\ log[t][Len(log[t])][1] = "add_consumer"
            /\ ret[t] = log[t][Len(log[t])][4]
            /\ pc[t] \in {"unlock", "put", "done"}

\* A register call has returned the second error value from a failed
\* add_consumer of a producer that supplies del_consumer.
C18_Witness ==
    \E t \in Threads :
        /\ AddConsumerFailed(t)
        /\ pc[t] = "done"
        /\ ret[t] = 0 - NumErrs
        /\ "del_consumer" \in caps[Prod(t)]

(* ------------------------------------------------------------------ *)
(* C19                                                                 *)
(* ------------------------------------------------------------------ *)

\* No pair among the producers ps is half-wired: the producer side holds
\* the consumer only if the consumer side holds the producer.
NoHalfWired(ps) ==
    \A p \in ps, c \in Consumers :
        <<p, c>> \in pside => <<p, c>> \in cside

\* The producers that can undo what they can do: del_consumer is supplied
\* if add_consumer is.
CanUnwire(p) == "add_consumer" \in caps[p] => "del_consumer" \in caps[p]

\* C19 as stated: whenever the mutex is free no pair is half-wired,
\* whatever callbacks the producer and the consumer supply.
C19_NeverHalfWired ==
    lock = NoThread => NoHalfWired(Producers)

\* C19 as amended: whenever the mutex is free, no pair whose producer
\* supplies del_consumer if it supplies add_consumer is half-wired.
C19_NeverHalfWiredIfCanUnwire ==
    lock = NoThread => NoHalfWired({p \in Producers : CanUnwire(p)})

\* A register call whose add_producer failed after add_consumer had
\* succeeded, and whose producer took the consumer back, has released the
\* mutex.
C19_Witness ==
    /\ lock = NoThread
    /\ \E t \in Threads :
           /\ pc[t] = "done"
           /\ peer[t] # NoEntry
           /\ CanUnwire(Prod(t))
           /\ CountOf(t, "add_consumer") = 1
           /\ CountOf(t, "del_consumer") = 1
           /\ ret[t] # 0

(* ------------------------------------------------------------------ *)
(* C20                                                                 *)
(* ------------------------------------------------------------------ *)

\* The __connect of thread t is over and every callback in it succeeded.
ConnectSucceeded(t) ==
    /\ IsRegister(op[t])
    /\ peer[t] # NoEntry
    /\ pc[t] \in {"add", "done"}
    /\ AllSucceeded(t)

\* C20: the callbacks of a __connect(p, c) in which every callback
\* succeeds are, in this order and once each, those of p.stop, c.stop,
\* p.add_consumer(c), c.add_producer(p), c.start, p.start that are
\* supplied.
C20_ConnectOrder ==
    \A t \in Threads :
        ConnectSucceeded(t) => log[t] = ConnectOf(Prod(t), Cons(t))

\* A __connect of a producer and a consumer that supply every callback
\* has succeeded.
C20_Witness ==
    \E t \in Threads :
        /\ ConnectSucceeded(t)
        /\ pc[t] = "done"
        /\ Len(log[t]) = 6

(* ------------------------------------------------------------------ *)
(* C21                                                                 *)
(* ------------------------------------------------------------------ *)

\* s is an initial part of r.
IsPrefix(s, r) == Len(s) <= Len(r) /\ SubSeq(r, 1, Len(s)) = s

\* The call of thread t is an unregister call that runs __disconnect.
InDisconnect(t) == IsUnregister(op[t]) /\ peer[t] # NoEntry

\* C21: the callbacks of every __disconnect(p, c) are, in this order and
\* once each, those of p.stop, c.stop, c.del_producer(p),
\* p.del_consumer(c), c.start, p.start that are supplied; del_producer is
\* always among them and comes before del_consumer.
C21_DisconnectOrder ==
    \A t \in Threads :
        InDisconnect(t) =>
            /\ IsPrefix(log[t], DisconnectOf(Prod(t), Cons(t)))
            /\ pc[t] \in {"del", "oops", "unlock", "put", "done"} =>
                   /\ log[t] = DisconnectOf(Prod(t), Cons(t))
                   /\ CountOf(t, "del_producer") = 1
                   /\ \A i, j \in 1..Len(log[t]) :
                          (/\ log[t][i][1] = "del_producer"
                           /\ log[t][j][1] = "del_consumer") => i < j

\* A __disconnect of a producer that supplies del_consumer and no stop
\* has run to its end.
C21_Witness ==
    \E t \in Threads :
        /\ InDisconnect(t)
        /\ pc[t] = "done"
        /\ "del_consumer" \in caps[Prod(t)]
        /\ "stop" \notin caps[Prod(t)]
        /\ "start" \in caps[Cons(t)]

(* ------------------------------------------------------------------ *)
(* C22                                                                 *)
(* ------------------------------------------------------------------ *)

\* The call made from inside a callback had valid arguments and got its
\* module reference.
Reentered == pc["t2"] \notin {"idle", "get", "done"}

\* C22: a call made from inside a callback, with valid arguments and the
\* module reference granted, waits at mutex_lock for the mutex its own
\* thread holds: nothing can move any more, so neither it nor the outer
\* call returns, and the mutex is never free again for any other caller.
C22_ReentryDeadlocks ==
    Reentered =>
        /\ ValidArgs(op["t2"], arg["t2"])
        /\ pc["t2"] = "lock"
        /\ lock = "t1"
        /\ InCallback("t1")
        /\ ~ENABLED NextReenter

\* del_producer of a disconnect has called unregisterConsumer.
C22_Witness ==
    /\ Reentered
    /\ pc["t1"] = "d_del_p"
    /\ op["t2"] = "unregister_consumer"

(* ------------------------------------------------------------------ *)
(* C23                                                                 *)
(* ------------------------------------------------------------------ *)

\* Thread t has returned from the unregister call that followed the
\* successful registration of the same descriptor at once; pre[t] is the
\* state before the registration.
ReturnedFromPair(t) ==
    /\ pc[t] = "done"
    /\ IsUnregister(op[t])
    /\ pre[t].taken
    /\ "pair" \in DOMAIN pre[t]

\* C23: a successful registration takes exactly one reference, and the
\* matching unregistration right after it gives back the state before
\* the two calls: both lists, the connected pairs and the reference
\* count, with every side that supplies stop and start and was running
\* before running again, and the collaborator sides as before where the
\* producer can undo its side.
C23_RegisterUnregisterRestores ==
    \A t \in Threads :
        /\ (/\ pc[t] = "done" /\ IsRegister(op[t]) /\ ret[t] = 0
            /\ pre[t].taken) =>
               refcnt = pre[t].refcnt + 1
        /\ ReturnedFromPair(t) =>
               /\ producers = pre[t].producers
               /\ consumers = pre[t].consumers
               /\ connected = pre[t].connected
               /\ refcnt = pre[t].refcnt
               /\ \A e \in Entries :
                      ({"stop", "start"} \subseteq caps[e]
                           /\ pre[t].running[e]) => running[e]
               /\ (peer[t] # NoEntry /\ CanUnwire(Prod(t))) =>
                      pside = pre[t].pside /\ cside = pre[t].cside
               /\ peer[t] = NoEntry =>
                      pside = pre[t].pside /\ cside = pre[t].cside

\* A consumer was registered beside another one, connected to the
\* producer with its token, and unregistered again.
C23_Witness ==
    \E t \in Threads :
        /\ ReturnedFromPair(t)
        /\ op[t] = "unregister_consumer"
        /\ peer[t] # NoEntry
        /\ Len(consumers) = 1
        /\ Len(producers) = 2

(* ------------------------------------------------------------------ *)
(* C24                                                                 *)
(* ------------------------------------------------------------------ *)

\* The entries of list now that were not in list was, and the other way.
AddedTo(was, now) == Range(now) \ Range(was)
RemovedFrom(was, now) == Range(was) \ Range(now)

\* The list the operation of thread t works on has gained and lost no
\* entry but its argument since the call started, and the other list has
\* gained and lost none.
OnlyOwnMembership(t) ==
    LET isProd == op[t] \in {"register_producer", "unregister_producer"}
        mineWas == IF isProd THEN pre[t].producers ELSE pre[t].consumers
        mineNow == IF isProd THEN producers ELSE consumers
        otherWas == IF isProd THEN pre[t].consumers ELSE pre[t].producers
        otherNow == IF isProd THEN consumers ELSE producers
    IN /\ AddedTo(otherWas, otherNow) = {}
       /\ RemovedFrom(otherWas, otherNow) = {}
       /\ AddedTo(mineWas, mineNow) \subseteq {arg[t]}
       /\ RemovedFrom(mineWas, mineNow) \subseteq {arg[t]}
       /\ IsRegister(op[t]) => RemovedFrom(mineWas, mineNow) = {}
       /\ IsUnregister(op[t]) => AddedTo(mineWas, mineNow) = {}

\* C24: at every point of an API call and at its return, the only
\* membership that differs from the start of the call is that of the
\* argument in the list of its own kind: the other list holds the same
\* entries, a register has removed nothing and an unregister has added
\* nothing.
C24_OnlyOwnMembership ==
    \A t \in Threads :
        (pc[t] # "idle" /\ pre[t].taken) => OnlyOwnMembership(t)

\* A producer was unregistered and disconnected from its consumer while
\* another producer and another consumer were registered: it is gone and
\* the three others are where they were.
C24_Witness ==
    \E t \in Threads :
        /\ pc[t] = "done"
        /\ pre[t].taken
        /\ op[t] = "unregister_producer"
        /\ peer[t] # NoEntry
        /\ Len(pre[t].producers) = 2
        /\ Len(pre[t].consumers) = 2
        /\ arg[t] \in Range(pre[t].producers)
        /\ arg[t] \notin Range(producers)
        /\ Len(producers) = 1
        /\ consumers = pre[t].consumers

(* ------------------------------------------------------------------ *)
(* C25                                                                 *)
(* ------------------------------------------------------------------ *)

\* Thread t has returned from the second of two registrations, a producer
\* and a consumer with the same token in either order, the second with
\* valid arguments and with no callback that failed.
ReturnedFromBoth(t) ==
    /\ pc[t] = "done"
    /\ pre[t].taken
    /\ "first" \in DOMAIN pre[t]
    /\ ValidArgs(op[t], arg[t])
    /\ AllSucceeded(t)

\* The producer and the consumer of the two registrations.
PairProd(t) == IF op[t] = "register_producer" THEN arg[t] ELSE pre[t].first
PairCons(t) == IF op[t] = "register_producer" THEN pre[t].first ELSE arg[t]

\* What both orders end with, from the registry before the first call:
\* the two descriptors at the heads of their lists, their pair wired on
\* both sides, two more references, and the second call has run exactly
\* one connect of the pair.
BothRegistered(t) ==
    LET p == PairProd(t)
        c == PairCons(t)
    IN /\ ret[t] = 0
       /\ producers = ListAdd(p, pre[t].producers)
       /\ consumers = ListAdd(c, pre[t].consumers)
       /\ connected = pre[t].connected \cup {<<p, c>>}
       /\ cside = pre[t].cside \cup {<<p, c>>}
       /\ pside = pre[t].pside \cup (IF "add_consumer" \in caps[p]
                                      THEN {<<p, c>>} ELSE {})
       /\ refcnt = pre[t].refcnt + 2
       /\ log[t] = ConnectOf(p, c)

\* Nothing that carries the token of the pair was registered before the
\* first of the two calls.
TokenFreeBefore(t) ==
    \A e \in Range(pre[t].producers) \cup Range(pre[t].consumers) :
        token[e] # token[arg[t]]

\* C25 as stated: from any registry state, registerProducer(p) then
\* registerConsumer(c) and registerConsumer(c) then registerProducer(p),
\* with equal tokens and succeeding callbacks, end with the same lists,
\* wiring and reference count, and the second call runs one connect(p, c)
\* with the same callback sequence.
C25_OrderDoesNotMatter ==
    \A t \in Threads : ReturnedFromBoth(t) => BothRegistered(t)

\* C25, from a registry state in which nothing carries the token of the
\* pair: both orders end with the same lists, wiring and reference count,
\* and the second call runs one connect(p, c) with the same callback
\* sequence.
C25_OrderDoesNotMatterIfTokenFree ==
    \A t \in Threads :
        (ReturnedFromBoth(t) /\ TokenFreeBefore(t)) => BothRegistered(t)

\* The consumer was registered first and the producer second, beside
\* another producer and another consumer with other tokens, and the
\* second call connected the pair.
C25_Witness ==
    \E t \in Threads :
        /\ ReturnedFromBoth(t)
        /\ TokenFreeBefore(t)
        /\ op[t] = "register_producer"
        /\ Len(pre[t].producers) = 1
        /\ Len(pre[t].consumers) = 1
        /\ Len(log[t]) >= 4

====
